---- MODULE Spec2Model ----
(***************************************************************************)
(* Seccomp profile compiler of containers-golang: BuildFilter,             *)
(* matchSyscall, toAction, toCondition, toCompareOp (filter.go) and        *)
(* ValidateProfile (validate.go).                                          *)
(*                                                                         *)
(* Go values are modelled as follows.                                      *)
(*   pointer      a sequence of length <= 1: <<>> is nil, <<v>> points to v*)
(*   error        the chain of messages, outermost wrap first; <<>> is nil *)
(*   ScmpAction   [act, code]: the action and its 16-bit return code field *)
(*   ScmpFilter   [defaultAction, archs, nnp, rules]                       *)
(* libseccomp is called, not defined, by this repository.  Its calls are   *)
(* modelled at their call sites by the behaviour the library documents:    *)
(* seccomp_rule_add(3) rejects a rule whose action equals the filter's     *)
(* default action and a rule with two checks on one argument,              *)
(* MakeCondition rejects an argument index above 5, AddArch of an          *)
(* architecture already present succeeds.                                  *)
(***************************************************************************)
EXTENDS Integers, Sequences, FiniteSets

\* ------------------------------------------------------------ bounds

\* Longest syscalls sequence of a policy text.
MaxCalls == 2
\* Longest args sequence of a syscall entry.
MaxArgs == 3
\* Largest errnoRet handed to toAction (the field is a Go uint).
MaxErrnoRet == 65537

\* --------------------------------------------------------- constants

\* unix.EPERM
EPERM == 1
\* const syscallMaxArguments int = 6
syscallMaxArguments == 6
\* width of the int16 that toAction converts *errnoRet to
Int16Bits == 16

\* Action (the profile's strings)
ActKill == "SCMP_ACT_KILL"
ActKillProcess == "SCMP_ACT_KILL_PROCESS"
ActErrno == "SCMP_ACT_ERRNO"
ActTrap == "SCMP_ACT_TRAP"
ActAllow == "SCMP_ACT_ALLOW"
ActTrace == "SCMP_ACT_TRACE"
ActLog == "SCMP_ACT_LOG"

\* Operator (the profile's strings)
OpEqualTo == "SCMP_CMP_EQ"
OpNotEqual == "SCMP_CMP_NE"
OpGreaterThan == "SCMP_CMP_GT"
OpGreaterEqual == "SCMP_CMP_GE"
OpLessThan == "SCMP_CMP_LT"
OpLessEqual == "SCMP_CMP_LE"
OpMaskedEqual == "SCMP_CMP_MASKED_EQ"

\* --------------------------------------------------- errors, pointers

NoErr == <<>>
Nil == <<>>

New(msg) == <<msg>>

Wrap(err, msg) == <<msg>> \o err

Ptr(v) == <<v>>

Deref(p) == p[1]

\* ------------------------------------------------------ toAction

\* A conversion that saturates at the largest int16 instead of wrapping.
ToInt16Saturating(x) ==
  IF x >= 2 ^ (Int16Bits - 1) THEN 2 ^ (Int16Bits - 1) - 1 ELSE x

\* int16(x) of a Go uint: the low 16 bits, read as two's complement.
ToInt16(x) ==
  LET m == x % (2 ^ Int16Bits)
  IN  IF m >= 2 ^ (Int16Bits - 1) THEN m - 2 ^ Int16Bits ELSE m

\* A library action that carries no return code.
LibAct(a) == [act |-> a, code |-> 0]

\* ScmpAction.SetReturnCode(code int16): (ScmpAction(code) & 0xFFFF) << 16,
\* only on ActErrno and ActTrace.
SetReturnCode(a, code) ==
  IF a.act \in {"ActErrno", "ActTrace"}
  THEN [act |-> a.act, code |-> code % (2 ^ Int16Bits)]
  ELSE a

\* An unknown action taken for ActAllow.
toActionLenient(act, errnoRet) ==
  CASE act = ActKill -> [action |-> LibAct("ActKill"), err |-> NoErr]
    [] act = ActKillProcess -> [action |-> LibAct("ActKillProcess"), err |-> NoErr]
    [] act = ActErrno ->
         [action |-> SetReturnCode(LibAct("ActErrno"),
                       ToInt16(IF errnoRet # Nil THEN Deref(errnoRet) ELSE EPERM)),
          err |-> NoErr]
    [] act = ActTrap -> [action |-> LibAct("ActTrap"), err |-> NoErr]
    [] act = ActTrace ->
         [action |-> SetReturnCode(LibAct("ActTrace"),
                       ToInt16(IF errnoRet # Nil THEN Deref(errnoRet) ELSE EPERM)),
          err |-> NoErr]
    [] act = ActLog -> [action |-> LibAct("ActLog"), err |-> NoErr]
    [] OTHER -> [action |-> LibAct("ActAllow"), err |-> NoErr]

toAction(act, errnoRet) ==
  CASE act = ActKill -> [action |-> LibAct("ActKill"), err |-> NoErr]
    [] act = ActKillProcess -> [action |-> LibAct("ActKillProcess"), err |-> NoErr]
    [] act = ActErrno ->
         IF errnoRet # Nil
         THEN [action |-> SetReturnCode(LibAct("ActErrno"), ToInt16(Deref(errnoRet))),
               err |-> NoErr]
         ELSE [action |-> SetReturnCode(LibAct("ActErrno"), ToInt16(EPERM)),
               err |-> NoErr]
    [] act = ActTrap -> [action |-> LibAct("ActTrap"), err |-> NoErr]
    [] act = ActAllow -> [action |-> LibAct("ActAllow"), err |-> NoErr]
    [] act = ActTrace ->
         IF errnoRet # Nil
         THEN [action |-> SetReturnCode(LibAct("ActTrace"), ToInt16(Deref(errnoRet))),
               err |-> NoErr]
         ELSE [action |-> SetReturnCode(LibAct("ActTrace"), ToInt16(EPERM)),
               err |-> NoErr]
    [] act = ActLog -> [action |-> LibAct("ActLog"), err |-> NoErr]
    [] OTHER -> [action |-> LibAct("ActInvalid"), err |-> New("invalid action")]

\* ---------------------------------------------- toCompareOp, toCondition

\* An unknown operator taken for equality.
toCompareOpLenient(op) ==
  CASE op = OpNotEqual -> [op |-> "CompareNotEqual", err |-> NoErr]
    [] op = OpGreaterThan -> [op |-> "CompareGreater", err |-> NoErr]
    [] op = OpGreaterEqual -> [op |-> "CompareGreaterEqual", err |-> NoErr]
    [] op = OpLessThan -> [op |-> "CompareLess", err |-> NoErr]
    [] op = OpLessEqual -> [op |-> "CompareLessOrEqual", err |-> NoErr]
    [] op = OpMaskedEqual -> [op |-> "CompareMaskedEqual", err |-> NoErr]
    [] OTHER -> [op |-> "CompareEqual", err |-> NoErr]

toCompareOp(op) ==
  CASE op = OpEqualTo -> [op |-> "CompareEqual", err |-> NoErr]
    [] op = OpNotEqual -> [op |-> "CompareNotEqual", err |-> NoErr]
    [] op = OpGreaterThan -> [op |-> "CompareGreater", err |-> NoErr]
    [] op = OpGreaterEqual -> [op |-> "CompareGreaterEqual", err |-> NoErr]
    [] op = OpLessThan -> [op |-> "CompareLess", err |-> NoErr]
    [] op = OpLessEqual -> [op |-> "CompareLessOrEqual", err |-> NoErr]
    [] op = OpMaskedEqual -> [op |-> "CompareMaskedEqual", err |-> NoErr]
    [] OTHER -> [op |-> "CompareInvalid", err |-> New("invalid operator")]

\* The zero ScmpCondition, returned beside an error.
ZeroCond == [Argument |-> 0, Op |-> "CompareInvalid", Operand1 |-> 0, Operand2 |-> 0]

\* libseccomp.MakeCondition(arg, op, value, valueTwo)
MakeCondition(index, op, value, valueTwo) ==
  IF op = "CompareInvalid"
  THEN [cond |-> ZeroCond, err |-> New("invalid comparison operator")]
  ELSE IF index > 5
  THEN [cond |-> ZeroCond, err |-> New("syscalls only have up to 6 arguments")]
  ELSE [cond |-> [Argument |-> index, Op |-> op, Operand1 |-> value,
                  Operand2 |-> valueTwo],
        err |-> NoErr]

toCondition(arg) ==
  IF arg = Nil
  THEN [cond |-> ZeroCond, err |-> New("cannot convert nil to syscall condition")]
  ELSE LET o == toCompareOp(Deref(arg).Op)
       IN  IF o.err # NoErr
           THEN [cond |-> ZeroCond, err |-> Wrap(o.err, "convert compare operator")]
           ELSE LET c == MakeCondition(Deref(arg).Index, o.op, Deref(arg).Value,
                                       Deref(arg).ValueTwo)
                IN  IF c.err # NoErr
                    THEN [cond |-> ZeroCond, err |-> Wrap(c.err, "make condition")]
                    ELSE [cond |-> c.cond, err |-> NoErr]

\* ----------------------------------------------------- libseccomp calls

\* libseccomp.GetSyscallFromName on the running kernel.
GetSyscallFromName(name) ==
  CASE name = "read" -> [num |-> 0, err |-> NoErr]
    [] name = "write" -> [num |-> 1, err |-> NoErr]
    [] OTHER -> [num |-> 0 - 1, err |-> New("could not resolve name to syscall")]

\* strings.ToLower, on the architecture strings the inputs use.
ToLower(s) ==
  CASE s = "AMD64" -> "amd64"
    [] OTHER -> s

\* libseccomp.GetArchFromString
GetArchFromString(arch) ==
  CASE ToLower(arch) = "x86" -> [arch |-> "ArchX86", err |-> NoErr]
    [] ToLower(arch) \in {"amd64", "x86-64", "x86_64", "x64"} ->
         [arch |-> "ArchAMD64", err |-> NoErr]
    [] ToLower(arch) = "arm" -> [arch |-> "ArchARM", err |-> NoErr]
    [] OTHER -> [arch |-> "ArchInvalid",
                 err |-> New("cannot convert unrecognized string")]

\* libseccomp.NewFilter: a filter holding the native architecture, with the
\* no-new-privileges bit set and no rule.
NewFilter(defaultAction) ==
  IF defaultAction.act = "ActInvalid"
  THEN [filter |-> Nil, err |-> New("invalid default action")]
  ELSE [filter |-> Ptr([defaultAction |-> defaultAction, archs |-> {"ArchAMD64"},
                        nnp |-> TRUE, rules |-> <<>>]),
        err |-> NoErr]

\* ScmpFilter.AddArch: an architecture already present is not an error.
AddArch(f, scmpArch) ==
  [filter |-> [f EXCEPT !.archs = @ \cup {scmpArch}], err |-> NoErr]

\* ScmpFilter.SetNoNewPrivsBit
SetNoNewPrivsBit(f, state) ==
  [filter |-> [f EXCEPT !.nnp = state], err |-> NoErr]

\* ScmpFilter.AddRuleConditional: seccomp_rule_add_array refuses more than six
\* checks, an action equal to the filter's default action and two checks on
\* one argument; otherwise the rule joins the filter.
AddRuleConditional(f, callNum, callAct, conds) ==
  IF Len(conds) > syscallMaxArguments
  THEN [filter |-> f, err |-> New("two checks on same syscall argument")]
  ELSE IF callAct = f.defaultAction
  THEN [filter |-> f, err |-> New("requested action matches default action of filter")]
  ELSE IF \E i, j \in 1..Len(conds) : i # j /\ conds[i].Argument = conds[j].Argument
  THEN [filter |-> f, err |-> New("two checks on same syscall argument")]
  ELSE [filter |-> [f EXCEPT !.rules = Append(@, [call |-> callNum, action |-> callAct,
                                                   conds |-> conds])],
        err |-> NoErr]

\* ScmpFilter.AddRule: the rule without conditions.
AddRule(f, callNum, callAct) == AddRuleConditional(f, callNum, callAct, <<>>)

\* ------------------------------------------------------- matchSyscall

\* The loop over call.Args: each condition translated and counted, the first
\* failure returned.  argCounts has syscallMaxArguments elements; an index
\* outside it would be a run-time panic.
RECURSIVE translateArgs(_, _, _, _)
translateArgs(args, i, argCounts, conditions) ==
  IF i > Len(args)
  THEN [err |-> NoErr, panic |-> FALSE, argCounts |-> argCounts,
        conditions |-> conditions]
  ELSE LET r == toCondition(args[i])
       IN  IF r.err # NoErr
           THEN [err |-> Wrap(r.err, "create seccomp syscall condition for syscall"),
                 panic |-> FALSE, argCounts |-> argCounts, conditions |-> conditions]
           ELSE IF Deref(args[i]).Index \notin DOMAIN argCounts
           THEN [err |-> NoErr, panic |-> TRUE, argCounts |-> argCounts,
                 conditions |-> conditions]
           ELSE translateArgs(args, i + 1,
                              [argCounts EXCEPT ![Deref(args[i]).Index] = @ + 1],
                              Append(conditions, r.cond))

hasMultipleArgs(argCounts) == \E k \in DOMAIN argCounts : argCounts[k] > 1

\* The loop that adds each condition attached to a separate rule.
RECURSIVE addEachCondition(_, _, _, _, _)
addEachCondition(f, callNum, callAct, conditions, i) ==
  IF i > Len(conditions)
  THEN [filter |-> f, err |-> NoErr]
  ELSE LET r == AddRuleConditional(f, callNum, callAct, <<conditions[i]>>)
       IN  IF r.err # NoErr
           THEN [filter |-> r.filter, err |-> Wrap(r.err, "add seccomp rule for syscall")]
           ELSE addEachCondition(r.filter, callNum, callAct, conditions, i + 1)

\* The rules of one syscall entry with conditions.
addConditional(f, callNum, callAct, t) ==
  IF hasMultipleArgs(t.argCounts)
  THEN addEachCondition(f, callNum, callAct, t.conditions, 1)
  ELSE LET r == AddRuleConditional(f, callNum, callAct, t.conditions)
       IN  IF r.err # NoErr
           THEN [filter |-> r.filter, err |-> Wrap(r.err, "add seccomp rule for syscall")]
           ELSE [filter |-> r.filter, err |-> NoErr]

\* matchSyscall from the action's conversion on: the rules of a resolved call.
matchSyscallRules(filter, call, callNum) ==
  LET a == toAction(Deref(call).Action, Deref(call).ErrnoRet)
  IN  IF a.err # NoErr
      THEN [filter |-> filter, err |-> Wrap(a.err, "convert action"), panic |-> FALSE]
      ELSE IF Len(Deref(call).Args) = 0
      THEN LET r == AddRule(Deref(filter), callNum, a.action)
           IN  IF r.err # NoErr
               THEN [filter |-> Ptr(r.filter),
                     err |-> Wrap(r.err, "add seccomp filter rule for syscall"),
                     panic |-> FALSE]
               ELSE [filter |-> Ptr(r.filter), err |-> NoErr, panic |-> FALSE]
      ELSE LET t == translateArgs(Deref(call).Args, 1,
                                  [k \in 0..(syscallMaxArguments - 1) |-> 0], <<>>)
           IN  IF t.panic
               THEN [filter |-> filter, err |-> NoErr, panic |-> TRUE]
               ELSE IF t.err # NoErr
               THEN [filter |-> filter, err |-> t.err, panic |-> FALSE]
               ELSE LET r == addConditional(Deref(filter), callNum, a.action, t)
                    IN  [filter |-> Ptr(r.filter), err |-> r.err, panic |-> FALSE]

\* An unresolvable name reported as an error instead of ignored.
matchSyscallResolveFails(filter, call) ==
  LET g == GetSyscallFromName(Deref(call).Name)
  IN  IF g.err # NoErr
      THEN [filter |-> filter, err |-> Wrap(g.err, "resolve syscall"), panic |-> FALSE]
      ELSE matchSyscallRules(filter, call, g.num)

\* matchSyscall from the name's resolution on: a name that does not resolve is
\* ignored, without an error.
matchSyscallResolve(filter, call) ==
  LET g == GetSyscallFromName(Deref(call).Name)
  IN  IF g.err # NoErr
      THEN [filter |-> filter, err |-> NoErr, panic |-> FALSE]
      ELSE matchSyscallRules(filter, call, g.num)

\* The check of the name's length left out.
matchSyscallNoNameCheck(filter, call) ==
  IF call = Nil \/ filter = Nil
  THEN [filter |-> filter, err |-> New("cannot use nil as syscall to block"),
        panic |-> FALSE]
  ELSE matchSyscallResolve(filter, call)

\* matchSyscall(filter, call): the error returned and the filter as the call
\* leaves it.  filter and call are pointers.
matchSyscall(filter, call) ==
  IF call = Nil \/ filter = Nil
  THEN [filter |-> filter, err |-> New("cannot use nil as syscall to block"),
        panic |-> FALSE]
  ELSE IF Len(Deref(call).Name) = 0
  THEN [filter |-> filter, err |-> New("empty string is not a valid syscall"),
        panic |-> FALSE]
  ELSE matchSyscallResolve(filter, call)

\* ------------------------------------------------------- json.Unmarshal

\* A raw text is modelled by what the JSON decoder sees in it:
\*   kind "malformed"  text the decoder rejects
\*   kind "null"       the JSON text null
\*   kind "object"     an object; a member is a pointer (<<>> when the member
\*                     is absent or null), a sequence member is a sequence
\* The value of a string member; an absent member leaves Go's zero value.
Str(member) == IF member = <<>> THEN "" ELSE member[1]

\* One element of "args": null decodes to a nil *Arg.
UnmarshalArg(a) ==
  IF a = <<>>
  THEN Nil
  ELSE Ptr([Index |-> a[1].index, Op |-> Str(a[1].op), Value |-> a[1].value,
            ValueTwo |-> a[1].valueTwo])

\* One element of "syscalls": null decodes to a nil *Syscall.
UnmarshalSyscall(c) ==
  IF c = <<>>
  THEN Nil
  ELSE Ptr([Name |-> Str(c[1].name), Action |-> Str(c[1].action),
            ErrnoRet |-> c[1].errnoRet,
            Args |-> [i \in 1..Len(c[1].args) |-> UnmarshalArg(c[1].args[i])]])

\* &Seccomp{}
EmptySeccomp == [DefaultAction |-> "", Architectures |-> <<>>, Syscalls |-> <<>>]

\* json.Unmarshal([]byte(content), &profile), profile being a *Seccomp: the
\* text null sets the pointer itself to nil.
Unmarshal(text) ==
  CASE text.kind = "malformed" ->
         [profile |-> Ptr(EmptySeccomp), err |-> New("invalid character")]
    [] text.kind = "null" -> [profile |-> Nil, err |-> NoErr]
    [] OTHER ->
         [profile |-> Ptr([DefaultAction |-> Str(text.defaultAction),
                           Architectures |-> text.architectures,
                           Syscalls |-> [i \in 1..Len(text.syscalls) |->
                                           UnmarshalSyscall(text.syscalls[i])]]),
          err |-> NoErr]

\* ------------------------------------------------------------- inputs

\* All sequences over S of length at most n.
SeqUpTo(S, n) == UNION {[1..k -> S] : k \in 0..n}

JsonText(kind, defaultAction, architectures, syscalls) ==
  [kind |-> kind, defaultAction |-> defaultAction, architectures |-> architectures,
   syscalls |-> syscalls]

JsonArg(index, op, value, valueTwo) ==
  <<[index |-> index, op |-> <<op>>, value |-> value, valueTwo |-> valueTwo]>>

\* Texts that vary the policy: default action, architectures, and up to
\* MaxCalls entries: null, named or not, resolvable or not, with each kind of
\* action, and with a condition whose operator is unknown.
PolicyEntries ==
  {<<>>}
    \cup {<<[name |-> n, action |-> <<a>>, errnoRet |-> <<>>, args |-> <<>>]>> :
            n \in {<<>>, <<"read">>, <<"nosuch">>},
            a \in {ActAllow, ActErrno, "BOGUS"}}
    \cup {<<[name |-> <<n>>, action |-> <<ActAllow>>, errnoRet |-> <<>>,
             args |-> <<JsonArg(0, "BOGUS", 1, 0)>>]>> :
            n \in {"read", "nosuch"}}

PolicyTexts ==
  {JsonText("object", d, r, c) :
     d \in {<<>>, <<ActAllow>>, <<ActErrno>>, <<"BOGUS">>},
     r \in {<<>>, <<"AMD64", "amd64">>, <<"SCMP_ARCH_X86_64">>},
     c \in SeqUpTo(PolicyEntries, MaxCalls)}

\* Texts that vary one entry's conditions: up to MaxArgs of them, on equal and
\* on distinct indices, null, with an unknown operator, with an index above 5.
ArgMenu ==
  {<<>>, JsonArg(0, OpEqualTo, 1, 0), JsonArg(0, OpEqualTo, 2, 0),
   JsonArg(1, OpNotEqual, 2, 0), JsonArg(2, OpMaskedEqual, 1, 3),
   JsonArg(1, "BOGUS", 2, 0), JsonArg(6, OpEqualTo, 1, 0)}

ArgTexts ==
  {JsonText("object", <<d>>, <<>>,
            <<<<[name |-> <<"read">>, action |-> <<a[1]>>, errnoRet |-> a[2],
                 args |-> g]>>>>) :
     d \in {ActAllow, ActErrno},
     a \in {<<ActAllow, <<>>>>, <<ActErrno, <<>>>>, <<ActErrno, <<2>>>>},
     g \in SeqUpTo(ArgMenu, MaxArgs)}

Texts ==
  {JsonText("malformed", <<>>, <<>>, <<>>), JsonText("null", <<>>, <<>>, <<>>)}
    \cup PolicyTexts \cup ArgTexts

\* -------------------------------------------------------------- state

VARIABLES
  content,   \* the raw text under test
  run,       \* the invocation in progress or last made: none, build, validate, reference
  pc,        \* the position inside the invocation
  profile,   \* the *Seccomp that BuildFilter works on
  filter,    \* the *ScmpFilter under construction
  idx,       \* the position of the range loop in progress (1-based)
  ret,       \* what BuildFilter returned (or that it panicked)
  results,   \* what each invocation handed to its caller
  skipped,   \* the entry left out of the reference build
  conv       \* one toAction call: its arguments and its result

vars == <<content, run, pc, profile, filter, idx, ret, results, skipped, conv>>

\* line is the line of filter.go that returned (or panicked); 0 before that.
NoRet == [filter |-> Nil, err |-> NoErr, panic |-> FALSE, line |-> 0]

\* built is the filter object as the invocation left it, returned or not.
NoResult == [outcome |-> "none", err |-> NoErr, filter |-> Nil, built |-> Nil]

NoConv == [act |-> "", errnoRet |-> Nil, done |-> FALSE,
           ret |-> [action |-> LibAct("ActInvalid"), err |-> NoErr]]

Init ==
  /\ content \in Texts
  /\ run = "none"
  /\ pc = "idle"
  /\ profile = Nil
  /\ filter = Nil
  /\ idx = 0
  /\ ret = NoRet
  /\ results = [r \in {"build", "validate", "reference"} |-> NoResult]
  /\ skipped = 0
  /\ conv = NoConv

\* ------------------------------------------------------------ callers

\* A caller that holds the decoded policy calls BuildFilter on it.
CallBuildFilter ==
  /\ pc = "idle" /\ run = "none"
  /\ Unmarshal(content).err = NoErr
  /\ run' = "build"
  /\ pc' = "start"
  /\ profile' = Unmarshal(content).profile
  /\ filter' = Nil /\ idx' = 0 /\ ret' = NoRet
  /\ UNCHANGED <<content, results, skipped, conv>>

\* ValidateProfile(content): profile := &Seccomp{}
CallValidateProfile ==
  /\ pc = "idle"
  /\ run = "build" \/ (run = "none" /\ Unmarshal(content).err # NoErr)
  /\ run' = "validate"
  /\ pc' = "decode"
  /\ profile' = Ptr(EmptySeccomp)
  /\ filter' = Nil /\ idx' = 0 /\ ret' = NoRet
  /\ UNCHANGED <<content, results, skipped, conv>>

\* The positions of the entries matchSyscall cannot resolve.
Unresolved(calls) ==
  {k \in 1..Len(calls) :
     /\ calls[k] # Nil
     /\ Len(Deref(calls[k]).Name) # 0
     /\ GetSyscallFromName(Deref(calls[k]).Name).err # NoErr}

RemoveAt(seq, k) ==
  [i \in 1..(Len(seq) - 1) |-> IF i < k THEN seq[i] ELSE seq[i + 1]]

\* The caller builds the same policy with one unresolvable entry left out.
CallBuildFilterWithout ==
  /\ pc = "idle" /\ run = "validate"
  /\ Unmarshal(content).err = NoErr
  /\ Unmarshal(content).profile # Nil
  /\ \E k \in Unresolved(Deref(Unmarshal(content).profile).Syscalls) :
       /\ skipped' = k
       /\ profile' = Ptr([Deref(Unmarshal(content).profile) EXCEPT
                            !.Syscalls = RemoveAt(@, k)])
  /\ run' = "reference"
  /\ pc' = "start"
  /\ filter' = Nil /\ idx' = 0 /\ ret' = NoRet
  /\ UNCHANGED <<content, results, conv>>

\* --------------------------------------------------- ValidateProfile

\* json.Unmarshal and the return on its error.
ValidateProfileDecode ==
  /\ pc = "decode"
  /\ LET r == Unmarshal(content)
     IN  IF r.err # NoErr
         THEN /\ results' = [results EXCEPT !["validate"] =
                               [outcome |-> "error",
                                err |-> Wrap(r.err, "decoding seccomp profile"),
                                filter |-> Nil, built |-> Nil]]
              /\ pc' = "idle"
              /\ UNCHANGED profile
         ELSE /\ profile' = r.profile
              /\ pc' = "start"
              /\ UNCHANGED results
  /\ UNCHANGED <<content, run, filter, idx, ret, skipped, conv>>

\* BuildFilter's error dropped.
ValidateProfileResultDropsError(r, f) ==
  IF r.panic
  THEN [outcome |-> "panic", err |-> NoErr, filter |-> Nil, built |-> f]
  ELSE [outcome |-> "ok", err |-> NoErr, filter |-> Nil, built |-> f]

\* What ValidateProfile returns for what BuildFilter returned: the filter is
\* dropped, an error is wrapped, a panic passes through.
ValidateProfileResult(r, f) ==
  IF r.panic
  THEN [outcome |-> "panic", err |-> NoErr, filter |-> Nil, built |-> f]
  ELSE IF r.err # NoErr
  THEN [outcome |-> "error", err |-> Wrap(r.err, "build seccomp filter"),
        filter |-> Nil, built |-> f]
  ELSE [outcome |-> "ok", err |-> NoErr, filter |-> Nil, built |-> f]

ValidateProfileReturn ==
  /\ pc = "returned" /\ run = "validate"
  /\ results' = [results EXCEPT !["validate"] = ValidateProfileResult(ret, filter)]
  /\ pc' = "idle"
  /\ filter' = Nil
  /\ UNCHANGED <<content, run, profile, idx, ret, skipped, conv>>

\* ------------------------------------------------------- BuildFilter

\* BuildFilter returns (f, err) to its caller, at the given line.
Return(f, err, line) ==
  /\ ret' = [filter |-> f, err |-> err, panic |-> FALSE, line |-> line]
  /\ pc' = "returned"

\* BuildFilter panics at the given line.
Panic(line) ==
  /\ ret' = [filter |-> Nil, err |-> NoErr, panic |-> TRUE, line |-> line]
  /\ pc' = "returned"

\* toAction of the default action and NewFilter.  A nil profile is
\* dereferenced by profile.DefaultAction: the call panics.
BuildFilterStart ==
  /\ pc = "start"
  /\ IF profile = Nil
     THEN /\ Panic(14)
          /\ UNCHANGED <<filter, idx>>
     ELSE LET a == toAction(Deref(profile).DefaultAction, Nil)
              n == NewFilter(a.action)
          IN  IF a.err # NoErr
              THEN /\ Return(Nil, Wrap(a.err, "convert default action"), 16)
                   /\ UNCHANGED <<filter, idx>>
              ELSE IF n.err # NoErr
              THEN /\ Return(Nil, Wrap(n.err, "create filter for default action"), 21)
                   /\ UNCHANGED <<filter, idx>>
              ELSE /\ filter' = n.filter
                   /\ idx' = 1
                   /\ pc' = "archs"
                   /\ UNCHANGED ret
  /\ UNCHANGED <<content, run, profile, results, skipped, conv>>

\* One turn of the loop over profile.Architectures.
BuildFilterAddArch ==
  /\ pc = "archs"
  /\ idx <= Len(Deref(profile).Architectures)
  /\ LET g == GetArchFromString(Deref(profile).Architectures[idx])
         r == AddArch(Deref(filter), g.arch)
     IN  IF g.err # NoErr
         THEN /\ Return(Nil, Wrap(g.err, "validate Seccomp architecture"), 28)
              /\ UNCHANGED <<filter, idx>>
         ELSE IF r.err # NoErr
         THEN /\ Return(Nil, Wrap(r.err, "add architecture to seccomp filter"), 32)
              /\ UNCHANGED <<filter, idx>>
         ELSE /\ filter' = Ptr(r.filter)
              /\ idx' = idx + 1
              /\ UNCHANGED <<pc, ret>>
  /\ UNCHANGED <<content, run, profile, results, skipped, conv>>

\* After the last architecture: filter.SetNoNewPrivsBit(false).
BuildFilterSetNoNewPrivs ==
  /\ pc = "archs"
  /\ idx > Len(Deref(profile).Architectures)
  /\ LET r == SetNoNewPrivsBit(Deref(filter), FALSE)
     IN  IF r.err # NoErr
         THEN /\ Return(Nil, Wrap(r.err, "set no new privileges flag"), 38)
              /\ UNCHANGED <<filter, idx>>
         ELSE /\ filter' = Ptr(r.filter)
              /\ idx' = 1
              /\ pc' = "syscalls"
              /\ UNCHANGED ret
  /\ UNCHANGED <<content, run, profile, results, skipped, conv>>

\* One turn of the loop over profile.Syscalls.
BuildFilterSyscall ==
  /\ pc = "syscalls"
  /\ idx <= Len(Deref(profile).Syscalls)
  /\ LET call == Deref(profile).Syscalls[idx]
         m == matchSyscall(filter, call)
     IN  IF call = Nil
         THEN /\ Return(Nil, New("encountered nil syscall while initializing seccomp"), 44)
              /\ UNCHANGED <<filter, idx>>
         ELSE IF m.panic
         THEN /\ Panic(97)
              /\ filter' = m.filter
              /\ UNCHANGED idx
         ELSE IF m.err # NoErr
         THEN /\ Return(Nil, Wrap(m.err, "filter matches syscall"), 48)
              /\ filter' = m.filter
              /\ UNCHANGED idx
         ELSE /\ filter' = m.filter
              /\ idx' = idx + 1
              /\ UNCHANGED <<pc, ret>>
  /\ UNCHANGED <<content, run, profile, results, skipped, conv>>

\* After the last syscall: return filter, nil.
BuildFilterReturn ==
  /\ pc = "syscalls"
  /\ idx > Len(Deref(profile).Syscalls)
  /\ Return(filter, NoErr, 52)
  /\ UNCHANGED <<content, run, profile, filter, idx, results, skipped, conv>>

\* The direct caller of BuildFilter receives the return value.
BuildFilterReturned ==
  /\ pc = "returned" /\ run \in {"build", "reference"}
  /\ results' = [results EXCEPT ![run] =
                   [outcome |-> IF ret.panic THEN "panic"
                                ELSE IF ret.err # NoErr THEN "error" ELSE "ok",
                    err |-> ret.err, filter |-> ret.filter, built |-> filter]]
  /\ pc' = "idle"
  /\ UNCHANGED <<content, run, profile, filter, idx, ret, skipped, conv>>

Next ==
  \/ CallBuildFilter
  \/ CallValidateProfile
  \/ CallBuildFilterWithout
  \/ ValidateProfileDecode
  \/ ValidateProfileReturn
  \/ BuildFilterStart
  \/ BuildFilterAddArch
  \/ BuildFilterSetNoNewPrivs
  \/ BuildFilterSyscall
  \/ BuildFilterReturn
  \/ BuildFilterReturned

Spec == Init /\ [][Next]_vars

\* ---------------------------------------------- toAction on its own

\* One call toAction(act, errnoRet) with a return code anywhere in
\* 0..MaxErrnoRet, or none.
InitAction ==
  /\ conv \in {[act |-> a, errnoRet |-> e, done |-> FALSE, ret |-> NoConv.ret] :
                 a \in {ActErrno, ActTrace},
                 e \in {Nil} \cup {Ptr(c) : c \in 0..MaxErrnoRet}}
  /\ content = JsonText("null", <<>>, <<>>, <<>>)
  /\ run = "none"
  /\ pc = "idle"
  /\ profile = Nil
  /\ filter = Nil
  /\ idx = 0
  /\ ret = NoRet
  /\ results = [r \in {"build", "validate", "reference"} |-> NoResult]
  /\ skipped = 0

CallToAction ==
  /\ ~conv.done
  /\ conv.act # ""
  /\ conv' = [conv EXCEPT !.done = TRUE, !.ret = toAction(conv.act, conv.errnoRet)]
  /\ UNCHANGED <<content, run, pc, profile, filter, idx, ret, results, skipped>>

NextAction == CallToAction

SpecAction == InitAction /\ [][NextAction]_vars

\* ------------------------------------------------------- the claims

\* The closed enumerations of the policy model.
ActionEnum == {ActKill, ActKillProcess, ActErrno, ActTrap, ActAllow, ActTrace, ActLog}

OperatorEnum ==
  {OpEqualTo, OpNotEqual, OpGreaterThan, OpGreaterEqual, OpLessThan, OpLessEqual,
   OpMaskedEqual}

\* The library action each returning action of the enumeration stands for.
ConcreteAct(act) ==
  CASE act = ActErrno -> "ActErrno"
    [] act = ActTrace -> "ActTrace"

\* C6: toAction for Errno and Trace succeeds; with no return code the action
\* carries EPERM, and with a return code in 0..65535 it carries that code
\* unchanged, although the code passes through an int16.
C6_ReturnCodeCarried ==
  conv.done =>
    /\ conv.ret.err = NoErr
    /\ conv.ret.action.act = ConcreteAct(conv.act)
    /\ conv.errnoRet = Nil => conv.ret.action.code = EPERM
    /\ (conv.errnoRet # Nil /\ conv.errnoRet[1] <= 65535) =>
         conv.ret.action.code = conv.errnoRet[1]

\* C6 witness: a code above the largest int16 has been converted and is
\* carried as given.
C6_Witness ==
  /\ conv.done
  /\ conv.errnoRet = <<40000>>
  /\ conv.ret.action = [act |-> "ActErrno", code |-> 40000]

\* The root cause of an error chain: its innermost message.
Cause(err) == err[Len(err)]

\* The policy a text decodes to (nil when it does not decode, or is null).
PolicyOf(text) ==
  IF Unmarshal(text).err = NoErr THEN Unmarshal(text).profile ELSE Nil

\* The syscall entries of a policy pointer.
CallsOf(p) == IF p = Nil THEN <<>> ELSE Deref(p).Syscalls

Min(S) == CHOOSE x \in S : \A y \in S : x <= y

Resolvable(name) == name \in {"read", "write"}

\* The positions of the entries with an empty name.
EmptyNamed(calls) ==
  {k \in 1..Len(calls) : calls[k] # Nil /\ Deref(calls[k]).Name = ""}

\* The most rules the entries before position k can add.
RECURSIVE RuleCap(_, _)
RuleCap(calls, k) ==
  IF k <= 1 THEN 0
  ELSE RuleCap(calls, k - 1)
         + (IF calls[k - 1] = Nil THEN 0
            ELSE IF Len(Deref(calls[k - 1]).Args) = 0 THEN 1
            ELSE Len(Deref(calls[k - 1]).Args))

RulesOf(f) == IF f = Nil THEN <<>> ELSE Deref(f).rules

\* C3: an entry whose name the resolver does not find is skipped without an
\* error and adds no rule: the build returns the same outcome, the same error
\* and a filter with the same rules as the build of the policy without it.
C3_UnresolvedIsAsAbsent ==
  results["reference"].outcome # "none" => results["reference"] = results["build"]

\* C3 witness: the policy's first entry did not resolve, and the build went on
\* to add a later entry's rule and succeeded, as did the build without it.
C3_Witness ==
  /\ results["reference"].outcome = "ok"
  /\ results["build"].outcome = "ok"
  /\ skipped = 1
  /\ Len(RulesOf(results["build"].filter)) >= 1

\* C4 as stated: whenever the policy holds an entry with an empty name, build
\* and validate fail with EmptySyscallName and the filter holds no rule of an
\* entry after it.
C4_Original ==
  \A r \in {"build", "validate"} :
    LET calls == CallsOf(PolicyOf(content))
    IN  (results[r].outcome # "none" /\ EmptyNamed(calls) # {}) =>
          /\ results[r].outcome = "error"
          /\ Cause(results[r].err) = "empty string is not a valid syscall"
          /\ Len(RulesOf(results[r].built)) <= RuleCap(calls, Min(EmptyNamed(calls)))

\* C4 as amended: whenever the policy holds an entry with an empty name, build
\* and validate fail, no entry after the first empty-named one is processed and
\* the filter holds no rule of such an entry; the error is EmptySyscallName
\* exactly when the build reaches that entry, and is the error of the earlier
\* step that failed (default action, architecture, earlier entry) otherwise.
C4_EmptyNameFailFast ==
  LET E == EmptyNamed(CallsOf(profile))
      all == EmptyNamed(CallsOf(PolicyOf(content)))
  IN  /\ (E # {} /\ pc = "syscalls") => idx <= Min(E)
      /\ (E # {} /\ pc \in {"syscalls", "returned"}) =>
           Len(RulesOf(filter)) <= RuleCap(CallsOf(profile), Min(E))
      /\ (E # {} /\ pc = "returned") =>
           /\ ret.err # NoErr /\ ~ret.panic /\ ret.filter = Nil
           /\ ret.line = 48 => idx <= Min(E)
           /\ (ret.line = 48 /\ idx = Min(E)) <=>
                Cause(ret.err) = "empty string is not a valid syscall"
      /\ \A r \in {"build", "validate", "reference"} :
           (all # {} /\ results[r].outcome # "none") =>
             /\ results[r].outcome = "error"
             /\ results[r].filter = Nil

\* C4 witness: the first entry has an empty name, a second entry that would
\* add a rule follows it, and the build has failed with EmptySyscallName and
\* an empty filter.
C4_Witness ==
  LET calls == CallsOf(PolicyOf(content))
  IN  /\ results["validate"].outcome = "error"
      /\ Cause(results["validate"].err) = "empty string is not a valid syscall"
      /\ Len(calls) = 2
      /\ EmptyNamed(calls) = {1}
      /\ calls[2] # Nil
      /\ Deref(calls[2]).Name = "read"
      /\ Deref(calls[2]).Action = ActErrno
      /\ Deref(PolicyOf(content)).DefaultAction = ActAllow
      /\ results["validate"].built # Nil
      /\ RulesOf(results["validate"].built) = <<>>

\* An entry whose compilation gets as far as a condition with an unknown
\* operator: named, resolvable, with a valid action, and every condition
\* before that one translating.
UnknownOperatorReached(call) ==
  /\ call # Nil
  /\ Deref(call).Name # ""
  /\ Resolvable(Deref(call).Name)
  /\ Deref(call).Action \in ActionEnum
  /\ \E j \in 1..Len(Deref(call).Args) :
       /\ Deref(call).Args[j] # Nil
       /\ Deref(Deref(call).Args[j]).Op \notin OperatorEnum
       /\ \A i \in 1..(j - 1) :
            /\ Deref(call).Args[i] # Nil
            /\ Deref(Deref(call).Args[i]).Op \in OperatorEnum
            /\ Deref(Deref(call).Args[i]).Index <= 5

\* An entry with an unknown operator in some condition.
HasUnknownOperator(call) ==
  /\ call # Nil
  /\ \E j \in 1..Len(Deref(call).Args) :
       /\ Deref(call).Args[j] # Nil
       /\ Deref(Deref(call).Args[j]).Op \notin OperatorEnum

\* C5 as stated: an entry with an unknown operator in any of its conditions
\* fails with InvalidOperator when the build compiles it, and the build
\* returns that error and no filter; the build never gets past such an entry.
C5_Original ==
  LET calls == CallsOf(profile)
  IN  /\ pc = "syscalls" => \A k \in 1..(idx - 1) : ~HasUnknownOperator(calls[k])
      /\ (pc = "returned" /\ ret.line = 52) =>
           \A k \in 1..Len(calls) : ~HasUnknownOperator(calls[k])
      /\ (pc = "returned" /\ ret.line = 48 /\ HasUnknownOperator(calls[idx])) =>
           /\ Cause(ret.err) = "invalid operator"
           /\ ret.filter = Nil

\* C5 as amended: when the build reaches an entry whose name is non-empty and
\* resolves, whose action is valid and whose conditions translate up to one
\* with an unknown operator, that entry fails with InvalidOperator and the
\* build returns that error and no filter; the build never gets past such an
\* entry.
C5_UnknownOperatorAborts ==
  LET calls == CallsOf(profile)
  IN  /\ pc = "syscalls" =>
           \A k \in 1..(idx - 1) : ~UnknownOperatorReached(calls[k])
      /\ (pc = "returned" /\ ret.line = 52) =>
           \A k \in 1..Len(calls) : ~UnknownOperatorReached(calls[k])
      /\ (pc = "returned" /\ ret.line = 48 /\ UnknownOperatorReached(calls[idx])) =>
           /\ Cause(ret.err) = "invalid operator"
           /\ ret.filter = Nil
           /\ Len(RulesOf(filter)) <= RuleCap(calls, idx)
      /\ \A r \in {"build", "validate"} :
           (results[r].outcome # "none" /\ Len(CallsOf(PolicyOf(content))) >= 1
              /\ UnknownOperatorReached(CallsOf(PolicyOf(content))[1])
              /\ Str(content.defaultAction) \in ActionEnum
              /\ \A i \in 1..Len(content.architectures) :
                   GetArchFromString(content.architectures[i]).err = NoErr) =>
             /\ results[r].outcome = "error"
             /\ Cause(results[r].err) = "invalid operator"

\* C5 witness: a second condition's unknown operator, after a first condition
\* that translated, has failed the entry and the build with InvalidOperator.
C5_Witness ==
  /\ pc = "returned" /\ ret.line = 48
  /\ UnknownOperatorReached(CallsOf(profile)[idx])
  /\ Len(Deref(CallsOf(profile)[idx]).Args) >= 2
  /\ Deref(Deref(CallsOf(profile)[idx]).Args[1]).Op \in OperatorEnum
  /\ Cause(ret.err) = "invalid operator"

\* C7: when the policy's default action is outside the enumeration, BuildFilter
\* returns InvalidAction from its first statement: no filter object exists at
\* any time, so no architecture is registered and no rule added, whatever the
\* architectures and syscalls are; validate reports the same error.
C7_InvalidDefaultActionFirst ==
  (content.kind = "object" /\ Str(content.defaultAction) \notin ActionEnum) =>
    /\ filter = Nil
    /\ pc \in {"idle", "decode", "start", "returned"}
    /\ pc = "returned" =>
         /\ ret.line = 16 /\ ~ret.panic /\ ret.filter = Nil
         /\ Cause(ret.err) = "invalid action"
    /\ \A r \in {"build", "validate", "reference"} :
         results[r].outcome # "none" =>
           /\ results[r].outcome = "error"
           /\ Cause(results[r].err) = "invalid action"
           /\ results[r].filter = Nil /\ results[r].built = Nil

\* C7 witness: a policy with an unknown default action, architectures and
\* syscalls has been refused by build and by validate.
C7_Witness ==
  /\ content.kind = "object"
  /\ content.defaultAction = <<"BOGUS">>
  /\ Len(content.architectures) > 0
  /\ Len(content.syscalls) > 0
  /\ results["build"].outcome = "error"
  /\ results["validate"].outcome = "error"

\* C8 as stated: validate ends with success or an error, never abnormally.
C8_ValidateNeverPanics == results["validate"].outcome # "panic"

\* C9: for a text that decodes, validate ends as build does: it succeeds
\* exactly when build succeeds, returns build's error wrapped when build
\* fails, returns no filter and leaves none behind.
C9_ValidateAgreesWithBuild ==
  /\ (results["build"].outcome # "none" /\ results["validate"].outcome # "none") =>
       /\ results["validate"].outcome = results["build"].outcome
       /\ results["build"].outcome = "error" =>
            results["validate"].err = <<"build seccomp filter">> \o results["build"].err
       /\ results["build"].outcome = "ok" => results["validate"].err = NoErr
       /\ results["validate"].filter = Nil
  /\ (run = "validate" /\ pc = "idle") => filter = Nil

\* C9 witness: a policy was built into a filter with a rule, and validating
\* its text then succeeded.
C9_Witness ==
  /\ results["build"].outcome = "ok"
  /\ Len(RulesOf(results["build"].filter)) >= 1
  /\ results["validate"].outcome = "ok"

\* A well-formed entry: not null, named, with an action of the enumeration and
\* conditions that are not null, use operators of the enumeration and indices
\* in 0..5.
WellFormedCall(call) ==
  /\ call # Nil
  /\ Deref(call).Name # ""
  /\ Deref(call).Action \in ActionEnum
  /\ \A i \in 1..Len(Deref(call).Args) :
       /\ Deref(call).Args[i] # Nil
       /\ Deref(Deref(call).Args[i]).Op \in OperatorEnum
       /\ Deref(Deref(call).Args[i]).Index \in 0..5

\* Some argument index is referenced by two or more conditions.
Colliding(call) ==
  \E k \in 0..5 :
    Cardinality({i \in 1..Len(Deref(call).Args) :
                   Deref(Deref(call).Args[i]).Index = k}) >= 2

\* The condition a well-formed ArgCondition translates to.
ExpectedCond(arg) ==
  [Argument |-> Deref(arg).Index, Op |-> toCompareOp(Deref(arg).Op).op,
   Operand1 |-> Deref(arg).Value, Operand2 |-> Deref(arg).ValueTwo]

\* The rule of a well-formed entry that carries the given conditions.
ExpectedRule(call, conds) ==
  [call |-> GetSyscallFromName(Deref(call).Name).num,
   action |-> toAction(Deref(call).Action, Deref(call).ErrnoRet).action,
   conds |-> conds]

\* The build is about to compile the entry at idx.
AtEntry == pc = "syscalls" /\ idx <= Len(CallsOf(profile))

\* C1 as stated: compiling a resolvable, well-formed entry with colliding
\* conditions adds exactly one rule per condition, in declaration order, each
\* with that single condition.
C1_Original ==
  [][(AtEntry /\ WellFormedCall(CallsOf(profile)[idx])
        /\ Resolvable(Deref(CallsOf(profile)[idx]).Name)
        /\ Len(Deref(CallsOf(profile)[idx]).Args) > 0
        /\ Colliding(CallsOf(profile)[idx])) =>
       LET call == CallsOf(profile)[idx]
       IN  RulesOf(filter') =
             RulesOf(filter) \o
               [i \in 1..Len(Deref(call).Args) |->
                  ExpectedRule(call, <<ExpectedCond(Deref(call).Args[i])>>)]]_vars

\* C2 as stated: compiling a resolvable, well-formed entry whose conditions
\* do not collide adds exactly one rule that carries all of them in
\* declaration order; an entry without conditions adds one rule without any.
C2_Original ==
  [][(AtEntry /\ WellFormedCall(CallsOf(profile)[idx])
        /\ Resolvable(Deref(CallsOf(profile)[idx]).Name)
        /\ ~Colliding(CallsOf(profile)[idx])) =>
       LET call == CallsOf(profile)[idx]
       IN  RulesOf(filter') =
             Append(RulesOf(filter),
                    ExpectedRule(call, [i \in 1..Len(Deref(call).Args) |->
                                          ExpectedCond(Deref(call).Args[i])]))]_vars

\* A well-formed policy text: an object whose default action is of the
\* enumeration, whose architectures the library recognizes and whose entries
\* are well-formed.
WellFormedText(text) ==
  /\ text.kind = "object"
  /\ Str(text.defaultAction) \in ActionEnum
  /\ \A i \in 1..Len(text.architectures) :
       GetArchFromString(text.architectures[i]).err = NoErr
  /\ \A k \in 1..Len(CallsOf(PolicyOf(text))) :
       WellFormedCall(CallsOf(PolicyOf(text))[k])

\* C10 as stated: the build of a well-formed policy succeeds and returns a
\* filter.
C10_Original ==
  (WellFormedText(content) /\ results["build"].outcome # "none") =>
    /\ results["build"].outcome = "ok"
    /\ results["build"].filter # Nil

\* ------------------------------------------------- what does hold

\* The entry's action is not the filter's default action, which is the one
\* case in which the library refuses the entry's rules.
NotDefaultAction(call) ==
  toAction(Deref(call).Action, Deref(call).ErrnoRet).action # Deref(filter).defaultAction

\* The statement of C1 for the entries whose action differs from the filter's
\* default action: the rules are added and the loop goes on.
CollidingConditionsSplit ==
  [][(AtEntry /\ WellFormedCall(CallsOf(profile)[idx])
        /\ Resolvable(Deref(CallsOf(profile)[idx]).Name)
        /\ Len(Deref(CallsOf(profile)[idx]).Args) > 0
        /\ Colliding(CallsOf(profile)[idx])
        /\ NotDefaultAction(CallsOf(profile)[idx])) =>
       LET call == CallsOf(profile)[idx]
       IN  /\ pc' = "syscalls"
           /\ RulesOf(filter') =
                RulesOf(filter) \o
                  [i \in 1..Len(Deref(call).Args) |->
                     ExpectedRule(call, <<ExpectedCond(Deref(call).Args[i])>>)]]_vars

\* The statement of C2 for the entries whose action differs from the filter's
\* default action.
DistinctConditionsJoined ==
  [][(AtEntry /\ WellFormedCall(CallsOf(profile)[idx])
        /\ Resolvable(Deref(CallsOf(profile)[idx]).Name)
        /\ ~Colliding(CallsOf(profile)[idx])
        /\ NotDefaultAction(CallsOf(profile)[idx])) =>
       LET call == CallsOf(profile)[idx]
       IN  /\ pc' = "syscalls"
           /\ RulesOf(filter') =
                Append(RulesOf(filter),
                       ExpectedRule(call, [i \in 1..Len(Deref(call).Args) |->
                                             ExpectedCond(Deref(call).Args[i])]))]_vars

\* The statement of C10 for the policies none of whose resolvable entries has
\* the default action.
WellFormedBuilds ==
  (/\ WellFormedText(content)
   /\ results["build"].outcome # "none"
   /\ \A k \in 1..Len(CallsOf(PolicyOf(content))) :
        LET call == CallsOf(PolicyOf(content))[k]
        IN  Resolvable(Deref(call).Name) =>
              toAction(Deref(call).Action, Deref(call).ErrnoRet).action
                # toAction(Str(content.defaultAction), Nil).action) =>
    /\ results["build"].outcome = "ok"
    /\ results["build"].filter # Nil

====
